---- MODULE Spec2Model ----
(***************************************************************************)
(* Blue Lock Terminal (src/page.tsx): the local record store of the        *)
(* BlueLockTerminal component, its localStorage adapter, the form          *)
(* handlers that create records and the derived statistics.                *)
(*                                                                         *)
(* Conventions of the model                                                *)
(*  - A text (a JavaScript string) is a sequence of one-character strings. *)
(*  - A JavaScript number is a record [nan, n].  Prices and pnl count      *)
(*    tenths (parseFloat keeps one decimal digit, the inputs of the model  *)
(*    have no more); every other number is an integer.                     *)
(*  - A localStorage item is [kind |-> "none"] (getItem returns null),     *)
(*    [kind |-> "raw", chars |-> text] for text that no JSON.stringify     *)
(*    produced, or [kind |-> "json", doc |-> v] for the text               *)
(*    JSON.stringify(v).                                                   *)
(*  - A JSON value is [t |-> "null"], [t |-> "array", items |-> seq] or    *)
(*    [t |-> "object", fields |-> record].                                 *)
(*  - One action is one React event: the handler, the render it causes and *)
(*    the effects of that render (React flushes the effects of a discrete  *)
(*    event before the next event is handled).                             *)
(***************************************************************************)
EXTENDS Integers, Sequences, FiniteSets, TLC

\* ------------------------------------------------------------------------
\* Bounds of the model
\* ------------------------------------------------------------------------
MaxEntries == 2     \* appends are explored while the store holds fewer records

\* ------------------------------------------------------------------------
\* Texts and numbers
\* ------------------------------------------------------------------------
Digits == <<"0", "1", "2", "3", "4", "5", "6", "7", "8", "9">>

DigitChars == {Digits[i] : i \in 1..10}

Whitespace == {" "}

DigitValue(c) == (CHOOSE i \in 1..10 : Digits[i] = c) - 1

NaN == [nan |-> TRUE, n |-> 0]

Num(i) == [nan |-> FALSE, n |-> i]

\* Number.prototype.toString of a non-negative integer
RECURSIVE Decimal(_)
Decimal(i) ==
    IF i < 10 THEN <<Digits[i + 1]>>
    ELSE Decimal(i \div 10) \o <<Digits[(i % 10) + 1]>>

\* String.prototype.trim
RECURSIVE TrimStart(_)
TrimStart(s) ==
    IF s # <<>> /\ Head(s) \in Whitespace THEN TrimStart(Tail(s)) ELSE s

RECURSIVE TrimEnd(_)
TrimEnd(s) ==
    IF s # <<>> /\ s[Len(s)] \in Whitespace
    THEN TrimEnd(SubSeq(s, 1, Len(s) - 1)) ELSE s

trim(s) == TrimEnd(TrimStart(s))

\* String.prototype.toUpperCase on the letters the model types
UpperOf(c) ==
    CASE c = "a" -> "A"
      [] c = "b" -> "B"
      [] c = "x" -> "X"
      [] OTHER -> c

toUpperCase(s) == [i \in 1..Len(s) |-> UpperOf(s[i])]

\* the longest prefix of s made of decimal digits
RECURSIVE DigitPrefix(_)
DigitPrefix(s) ==
    IF s # <<>> /\ Head(s) \in DigitChars
    THEN <<Head(s)>> \o DigitPrefix(Tail(s)) ELSE <<>>

RECURSIVE DigitsValue(_)
DigitsValue(ds) ==
    IF ds = <<>> THEN 0
    ELSE 10 * DigitsValue(SubSeq(ds, 1, Len(ds) - 1)) + DigitValue(ds[Len(ds)])

Unsigned(s) == IF s # <<>> /\ Head(s) \in {"-", "+"} THEN Tail(s) ELSE s

SignOf(s) == IF s # <<>> /\ Head(s) = "-" THEN -1 ELSE 1

\* parseInt(text), radix 10: leading white space, a sign, then digits; what
\* follows the digits is ignored; NaN when there is no digit
parseInt(text) ==
    LET t == TrimStart(text)
        ds == DigitPrefix(Unsigned(t))
    IN  IF ds = <<>> THEN NaN ELSE Num(SignOf(t) * DigitsValue(ds))

\* parseFloat(text), in tenths: as parseInt, then an optional "." and
\* fraction digits (the first one is kept); NaN when there is no digit
parseFloat(text) ==
    LET t == TrimStart(text)
        u == Unsigned(t)
        ds == DigitPrefix(u)
        rest == SubSeq(u, Len(ds) + 1, Len(u))
        fs == IF rest # <<>> /\ Head(rest) = "." THEN DigitPrefix(Tail(rest))
              ELSE <<>>
        tenths == IF fs = <<>> THEN 0 ELSE DigitValue(fs[1])
    IN  IF ds = <<>> /\ fs = <<>> THEN NaN
        ELSE Num(SignOf(t) * (10 * DigitsValue(ds) + tenths))

\* the JavaScript expression  x || d  on numbers: d when x is NaN or 0
OrElse(x, d) == IF x.nan \/ x.n = 0 THEN d ELSE x.n

\* ------------------------------------------------------------------------
\* Ego label logic
\* ------------------------------------------------------------------------
\* getEgoLabel with the first threshold exclusive
getEgoLabel_Strict(score) ==
    IF score < 20 THEN "DONKEY"
    ELSE IF score <= 40 THEN "HALF-BAKED"
    ELSE IF score <= 55 THEN "PUPPET"
    ELSE IF score <= 70 THEN "HUNGRY"
    ELSE IF score <= 85 THEN "EGOIST"
    ELSE IF score <= 95 THEN "MONSTER"
    ELSE "DEVOUR"

getEgoLabel(score) ==
    IF score <= 20 THEN "DONKEY"
    ELSE IF score <= 40 THEN "HALF-BAKED"
    ELSE IF score <= 55 THEN "PUPPET"
    ELSE IF score <= 70 THEN "HUNGRY"
    ELSE IF score <= 85 THEN "EGOIST"
    ELSE IF score <= 95 THEN "MONSTER"
    ELSE "DEVOUR"

\* ------------------------------------------------------------------------
\* Storage utilities
\* ------------------------------------------------------------------------
STORAGE_KEYS ==
    [egoEntries |-> "bluelock_ego", tradeEntries |-> "bluelock_trades",
     drillEntries |-> "bluelock_drills", settings |-> "bluelock_settings"]

Keys == {STORAGE_KEYS[f] : f \in DOMAIN STORAGE_KEYS}

NoItem == [kind |-> "none"]

RawText(chars) == [kind |-> "raw", chars |-> chars]

JNull == [t |-> "null"]

JArray(items) == [t |-> "array", items |-> items]

JObject(fields) == [t |-> "object", fields |-> fields]

Returned(v) == [throws |-> FALSE, value |-> v]

Thrown == [throws |-> TRUE]

JSON_stringify(v) == [kind |-> "json", doc |-> v]

\* JSON.parse: the document of a text JSON.stringify wrote, null for the
\* literal null, a SyntaxError for any other text
JSON_parse(text) ==
    IF text.kind = "json" THEN Returned(text.doc)
    ELSE IF text.chars = <<"n", "u", "l", "l">> THEN Returned(JNull)
    ELSE Thrown

\* localStorage.getItem: throws when the storage may not be accessed
getItem(store, denied, key) == IF denied THEN Thrown ELSE Returned(store[key])

\* JavaScript truthiness of what getItem returned: null and "" are falsy
Truthy(item) == item.kind # "none" /\ ~(item.kind = "raw" /\ item.chars = <<>>)

\* the body of the try block of loadFromStorage
LoadTry(store, denied, key, defaultValue) ==
    LET stored == getItem(store, denied, key)
    IN  IF stored.throws THEN Thrown
        ELSE IF Truthy(stored.value) THEN JSON_parse(stored.value)
        ELSE Returned(defaultValue)

\* loadFromStorage without its try/catch
loadFromStorage_NoCatch(window, store, denied, key, defaultValue) ==
    IF ~window THEN Returned(defaultValue)
    ELSE LoadTry(store, denied, key, defaultValue)

loadFromStorage(window, store, denied, key, defaultValue) ==
    IF ~window THEN Returned(defaultValue)
    ELSE LET r == LoadTry(store, denied, key, defaultValue)
         IN  IF r.throws THEN Returned(defaultValue) ELSE r

\* saveToStorage without its try/catch
saveToStorage_NoCatch(window, store, setItemThrows, key, value) ==
    IF ~window THEN [throws |-> FALSE, store |-> store]
    ELSE IF setItemThrows THEN [throws |-> TRUE, store |-> store]
    ELSE [throws |-> FALSE,
          store |-> [store EXCEPT ![key] = JSON_stringify(value)]]

\* saveToStorage: whether the call throws and the store after it; setItem
\* throws (quota, access) when setItemThrows, the catch logs and returns
saveToStorage(window, store, setItemThrows, key, value) ==
    IF ~window THEN [throws |-> FALSE, store |-> store]
    ELSE IF setItemThrows THEN [throws |-> FALSE, store |-> store]
    ELSE [throws |-> FALSE,
          store |-> [store EXCEPT ![key] = JSON_stringify(value)]]

\* ------------------------------------------------------------------------
\* State of the BlueLockTerminal component and of its environment
\* ------------------------------------------------------------------------
VARIABLES
    currentPage,    \* useState<Page>
    egoEntries,     \* useState<EgoEntry[]>
    tradeEntries,   \* useState<TradeEntry[]>
    drillEntries,   \* useState<DrillEntry[]>
    settings,       \* useState<Settings>
    loaded,         \* useState(false)
    showReset,      \* useState(false) of SettingsPage
    phase,          \* "mounted", "loading", "ready" or "crashed"
    rafQueue,       \* the requestAnimationFrame callbacks not yet run
    storage,        \* localStorage: key -> item
    written,        \* the keys the latest event passed to saveToStorage
    storageMode,    \* "ok", "full" (setItem throws) or "denied" (all throw)
    download        \* the latest file handed to the browser as a download

vars ==
    <<currentPage, egoEntries, tradeEntries, drillEntries, settings, loaded,
      showReset, phase, rafQueue, storage, written, storageMode, download>>

Pages == {"dashboard", "ego", "trades", "drills", "stats", "settings"}

DefaultSettings ==
    [startingCapital |-> 4705, targetCapital |-> 10000,
     weeklyInjection |-> 60, currentCapital |-> 4705]

SettingsFields == DOMAIN DefaultSettings

StoreSize == Len(egoEntries) + Len(tradeEntries) + Len(drillEntries)

\* the value each save callback passes to saveToStorage, by key
MemDoc(ego, trades, drills, sett) ==
    [k \in Keys |->
        IF k = STORAGE_KEYS.egoEntries THEN JArray(ego)
        ELSE IF k = STORAGE_KEYS.tradeEntries THEN JArray(trades)
        ELSE IF k = STORAGE_KEYS.drillEntries THEN JArray(drills)
        ELSE JObject(sett)]

\* saveEgo, saveTrades, saveDrills and saveSettings: the keys handed to
\* saveToStorage by the effects whose callback changed in this render
\* the save callbacks without their  if (loaded)  guard
SaveCalls_Ungated(isLoaded, changed) == changed

\* the save effects without their dependency lists: all four run
SaveCalls_AllEffects(isLoaded, changed) == IF isLoaded THEN Keys ELSE {}

SaveCalls(isLoaded, changed) == IF isLoaded THEN changed ELSE {}

\* the store after those calls; setItem throws for the keys of failing
StoreAfter(store, calls, failing, doc) ==
    [k \in Keys |->
        IF k \in calls
        THEN saveToStorage(TRUE, store, k \in failing, k, doc[k]).store[k]
        ELSE store[k]]

\* an effect that throws takes the component tree down
EffectsThrow(store, calls, failing, doc) ==
    \E k \in calls : saveToStorage(TRUE, store, k \in failing, k, doc[k]).throws

\* localStorage of the session: setItem throws for every key while the
\* quota is exhausted or the storage may not be accessed, getItem throws
\* when the storage may not be accessed
SetItemThrows(mode, calls) == IF mode = "ok" THEN {} ELSE calls

GetItemThrows(mode) == mode = "denied"

\* Commit with save callbacks that depend on their collection only, not on
\* loaded: an effect runs again only when its collection changed
Commit_WithoutLoadedDep(ego, trades, drills, sett, isLoaded, changed) ==
    LET before == MemDoc(egoEntries, tradeEntries, drillEntries, settings)
        doc == MemDoc(ego, trades, drills, sett)
        calls == SaveCalls(isLoaded, {k \in changed : doc[k] # before[k]})
        failing == SetItemThrows(storageMode, calls)
    IN  /\ storage' = StoreAfter(storage, calls, failing, doc)
        /\ written' = calls
        /\ phase' = IF EffectsThrow(storage, calls, failing, doc)
                    THEN "crashed" ELSE "ready"
        /\ UNCHANGED storageMode

\* Commit with save callbacks that closed over the previous render's state
Commit_Stale(ego, trades, drills, sett, isLoaded, changed) ==
    LET calls == SaveCalls(isLoaded, changed)
        doc == MemDoc(egoEntries, tradeEntries, drillEntries, settings)
        failing == SetItemThrows(storageMode, calls)
    IN  /\ storage' = StoreAfter(storage, calls, failing, doc)
        /\ written' = calls
        /\ phase' = IF EffectsThrow(storage, calls, failing, doc)
                    THEN "crashed" ELSE "ready"
        /\ UNCHANGED storageMode

\* the render that follows a state change and the save effects it triggers
Commit(ego, trades, drills, sett, isLoaded, changed) ==
    LET calls == SaveCalls(isLoaded, changed)
        doc == MemDoc(ego, trades, drills, sett)
        failing == SetItemThrows(storageMode, calls)
    IN  /\ storage' = StoreAfter(storage, calls, failing, doc)
        /\ written' = calls
        /\ phase' = IF EffectsThrow(storage, calls, failing, doc)
                    THEN "crashed" ELSE "ready"
        /\ UNCHANGED storageMode

\* ------------------------------------------------------------------------
\* What the user types and what localStorage holds at start
\* ------------------------------------------------------------------------
Txt10 == <<"1", "0">>

Txt15 == <<"1", "5">>

\* positions of the ego slider (min 0, max 100) the user moves it to
SliderScores == {100}

NotesTyped == {<<>>}

\* EgoLog form state at submit: score is 50 until the slider moves
EgoForms(slider) ==
    [score : {50} \cup {parseInt(Decimal(v)).n : v \in slider},
     notes : NotesTyped]

\* TradeLog form state at submit
TradeForms ==
    { [ticker |-> <<"a", "b">>, entryPrice |-> Txt10, exitPrice |-> Txt15,
       shares |-> <<"2">>, result |-> "WIN", notes |-> <<>>],
      [ticker |-> <<"x">>, entryPrice |-> <<"2", ".", "5">>,
       exitPrice |-> <<>>, shares |-> <<"-", "2">>, result |-> "LOSS",
       notes |-> <<>>] }

\* WeaponDrills form state at submit: intensity is 5 until the slider moves
DrillForms ==
    { [weapon |-> <<"a", "x">>, intensity |-> 5, category |-> "TRADING"],
      [weapon |-> <<"b">>, intensity |-> parseInt(<<"3">>).n,
       category |-> "FITNESS"],
      [weapon |-> <<" ">>, intensity |-> parseInt(<<"9">>).n,
       category |-> "MINDSET"],
      [weapon |-> <<>>, intensity |-> 5, category |-> "TRADING"] }

\* text typed into a capital field of SettingsPage
SettingTexts == {<<"4", "7", "0", "5">>}

\* what Date.now() returns to a submit: the wall clock, which may return the
\* same reading twice and may be set back
ClockReadings == {1, 2}

\* records an earlier session (clock reading 0) left in localStorage
StoredEgo ==
    [id |-> Decimal(0), date |-> 0, score |-> 50, label |-> getEgoLabel(50),
     notes |-> <<>>]

StoredSettings ==
    [startingCapital |-> 5000, targetCapital |-> 4705, weeklyInjection |-> 60,
     currentCapital |-> 4000]

\* what a key can hold that is not a value the program wrote
Unusable == {NoItem, RawText(<<>>), RawText(<<"{", "o">>), RawText(<<"n", "u", "l", "l">>)}

\* what an earlier session left: one ego entry, no trade, no drill
StoredValue(k) ==
    IF k = STORAGE_KEYS.egoEntries THEN JArray(<<StoredEgo>>)
    ELSE IF k = STORAGE_KEYS.tradeEntries THEN JArray(<<>>)
    ELSE IF k = STORAGE_KEYS.drillEntries THEN JArray(<<>>)
    ELSE JObject(StoredSettings)

\* first run, a store an earlier session wrote, and either of them with
\* one key damaged
UsableStore == [k \in Keys |-> JSON_stringify(StoredValue(k))]

InitialStores ==
    [Keys -> {NoItem}]
      \cup {[k \in Keys |-> JSON_stringify(StoredValue(k))]}
      \cup {[k \in Keys |-> IF k = j THEN u ELSE NoItem] :
               j \in Keys, u \in Unusable}
      \cup {[k \in Keys |-> IF k = j THEN u ELSE JSON_stringify(StoredValue(k))] :
               j \in {STORAGE_KEYS.tradeEntries}, u \in Unusable}

\* the session's storage: working, or holding what an earlier session
\* wrote while it is full or may not be accessed
InitialStorage ==
    ({"ok"} \X InitialStores) \cup ({"full", "denied"} \X {UsableStore})

\* no file was offered for download yet
NoDownload == [kind |-> "none"]

\* ------------------------------------------------------------------------
\* Construction
\* ------------------------------------------------------------------------
Init ==
    /\ currentPage = "dashboard"
    /\ egoEntries = <<>>
    /\ tradeEntries = <<>>
    /\ drillEntries = <<>>
    /\ settings = DefaultSettings
    /\ loaded = FALSE
    /\ showReset = FALSE
    /\ phase = "mounted"
    /\ rafQueue = <<>>
    /\ \E session \in InitialStorage :
          /\ storageMode = session[1]
          /\ storage = session[2]
    /\ written = {}
    /\ download = NoDownload

\* ------------------------------------------------------------------------
\* Mount: the load effect and the first run of the four save effects
\* ------------------------------------------------------------------------
\* the four loadFromStorage calls of the load effect
\* the load effect reading the drill log under the key of the trade log
LoadAll_TradesKeyTwice(store, denied) ==
    [ego |-> loadFromStorage(TRUE, store, denied, STORAGE_KEYS.egoEntries,
                             JArray(<<>>)),
     trades |-> loadFromStorage(TRUE, store, denied, STORAGE_KEYS.tradeEntries,
                                JArray(<<>>)),
     drills |-> loadFromStorage(TRUE, store, denied, STORAGE_KEYS.tradeEntries,
                                JArray(<<>>)),
     storedSettings |-> loadFromStorage(TRUE, store, denied,
                                        STORAGE_KEYS.settings,
                                        JObject(DefaultSettings))]

LoadAll(store, denied) ==
    [ego |-> loadFromStorage(TRUE, store, denied, STORAGE_KEYS.egoEntries,
                             JArray(<<>>)),
     trades |-> loadFromStorage(TRUE, store, denied, STORAGE_KEYS.tradeEntries,
                                JArray(<<>>)),
     drills |-> loadFromStorage(TRUE, store, denied, STORAGE_KEYS.drillEntries,
                                JArray(<<>>)),
     storedSettings |-> loadFromStorage(TRUE, store, denied,
                                        STORAGE_KEYS.settings,
                                        JObject(DefaultSettings))]

LoadThrows(res) ==
    res.ego.throws \/ res.trades.throws \/ res.drills.throws
        \/ res.storedSettings.throws

MountEffects ==
    /\ phase = "mounted"
    /\ LET res == LoadAll(storage, GetItemThrows(storageMode))
        IN  IF LoadThrows(res)
            THEN /\ phase' = "crashed"
                 /\ rafQueue' = rafQueue
                 /\ UNCHANGED <<storage, written, storageMode>>
            ELSE /\ rafQueue' = Append(rafQueue,
                       [ego |-> res.ego.value, trades |-> res.trades.value,
                        drills |-> res.drills.value,
                        storedSettings |-> res.storedSettings.value])
                 /\ LET calls == SaveCalls(loaded, Keys)
                        doc == MemDoc(egoEntries, tradeEntries, drillEntries,
                                      settings)
                        failing == SetItemThrows(storageMode, calls)
                    IN  /\ storage' = StoreAfter(storage, calls, failing, doc)
                        /\ written' = calls
                        /\ phase' = IF EffectsThrow(storage, calls, failing, doc)
                                    THEN "crashed" ELSE "loading"
                        /\ UNCHANGED storageMode
    /\ UNCHANGED <<currentPage, egoEntries, tradeEntries, drillEntries,
                   settings, loaded, showReset>>
    /\ UNCHANGED download

\* the render of BlueLockTerminal reads .length of the three collections
\* and the fields of settings: a TypeError when one of them is null
RenderThrows(c) ==
    \/ c.ego.t = "null"
    \/ c.trades.t = "null"
    \/ c.drills.t = "null"
    \/ c.storedSettings.t = "null"

\* the requestAnimationFrame callback of the load effect, the render it
\* causes and the save effects of that render
RafCallback ==
    /\ phase = "loading"
    /\ rafQueue # <<>>
    /\ LET c == Head(rafQueue)
       IN  IF RenderThrows(c)
           THEN /\ phase' = "crashed"
                /\ UNCHANGED <<egoEntries, tradeEntries, drillEntries,
                               settings, loaded, storage, written,
                               storageMode>>
           ELSE /\ egoEntries' = c.ego.items
                /\ tradeEntries' = c.trades.items
                /\ drillEntries' = c.drills.items
                /\ settings' = c.storedSettings.fields
                /\ loaded' = TRUE
                /\ Commit(egoEntries', tradeEntries', drillEntries', settings',
                          loaded', Keys)
    /\ rafQueue' = Tail(rafQueue)
    /\ UNCHANGED <<currentPage, showReset>>
    /\ UNCHANGED download

\* ------------------------------------------------------------------------
\* Environment: the storage quota
\* ------------------------------------------------------------------------
\* the user frees space: setItem works again
FreeQuota ==
    /\ storageMode = "full"
    /\ storageMode' = "ok"
    /\ UNCHANGED <<currentPage, egoEntries, tradeEntries, drillEntries,
                   settings, loaded, showReset, phase, rafQueue, storage,
                   written>>
    /\ UNCHANGED download

\* ------------------------------------------------------------------------
\* Navigation
\* ------------------------------------------------------------------------
\* a nav button of another page (setCurrentPage of the current page changes
\* nothing); the page component that is replaced loses its state
Navigate(page) ==
    /\ phase \in {"loading", "ready"}
    /\ page # currentPage
    /\ currentPage' = page
    /\ showReset' = FALSE
    /\ written' = {}
    /\ UNCHANGED <<egoEntries, tradeEntries, drillEntries, settings, loaded,
                   phase, rafQueue, storage, storageMode>>
    /\ UNCHANGED download

\* ------------------------------------------------------------------------
\* Ego log
\* ------------------------------------------------------------------------
\* handleSubmit labelling the entry by the score the form starts with
NewEgoEntry_InitialLabel(form, clock) ==
    [id |-> Decimal(clock), date |-> clock, score |-> form.score,
     label |-> getEgoLabel(50), notes |-> form.notes]

\* the entry EgoLog.handleSubmit builds
NewEgoEntry(form, clock) ==
    [id |-> Decimal(clock), date |-> clock, score |-> form.score,
     label |-> getEgoLabel(form.score), notes |-> form.notes]

\* onAdd of EgoLog putting the new entry first
AddEgo_Prepend(entries, entry) == <<entry>> \o entries

\* onAdd of EgoLog
AddEgo(entries, entry) == entries \o <<entry>>

EgoSubmit(form, reading) ==
    /\ phase = "ready"
    /\ loaded
    /\ currentPage = "ego"
    /\ StoreSize < MaxEntries
    /\ egoEntries' = AddEgo(egoEntries, NewEgoEntry(form, reading))
    /\ UNCHANGED <<tradeEntries, drillEntries, settings, loaded>>
    /\ Commit(egoEntries', tradeEntries', drillEntries', settings', loaded',
              {STORAGE_KEYS.egoEntries})
    /\ UNCHANGED <<currentPage, showReset, rafQueue>>
    /\ UNCHANGED download

\* ------------------------------------------------------------------------
\* Trade log
\* ------------------------------------------------------------------------
\* handleSubmit of TradeLog computing pnl per share
NewTradeEntry_PerShare(form, clock) ==
    LET entryP == OrElse(parseFloat(form.entryPrice), 0)
        exitP == OrElse(parseFloat(form.exitPrice), 0)
        sh == OrElse(parseInt(form.shares), 1)
        pnl == exitP - entryP
    IN  [id |-> Decimal(clock), date |-> clock,
         ticker |-> toUpperCase(form.ticker), entryPrice |-> entryP,
         exitPrice |-> exitP, shares |-> sh, result |-> form.result,
         pnl |-> pnl, notes |-> form.notes]

\* the entry TradeLog.handleSubmit builds
NewTradeEntry(form, clock) ==
    LET entryP == OrElse(parseFloat(form.entryPrice), 0)
        exitP == OrElse(parseFloat(form.exitPrice), 0)
        sh == OrElse(parseInt(form.shares), 1)
        pnl == (exitP - entryP) * sh
    IN  [id |-> Decimal(clock), date |-> clock,
         ticker |-> toUpperCase(form.ticker), entryPrice |-> entryP,
         exitPrice |-> exitP, shares |-> sh, result |-> form.result,
         pnl |-> pnl, notes |-> form.notes]

\* onAdd of TradeLog
AddTrade(entries, entry) == entries \o <<entry>>

TradeSubmit(form, reading) ==
    /\ phase = "ready"
    /\ loaded
    /\ currentPage = "trades"
    /\ StoreSize < MaxEntries
    /\ tradeEntries' = AddTrade(tradeEntries, NewTradeEntry(form, reading))
    /\ UNCHANGED <<egoEntries, drillEntries, settings, loaded>>
    /\ Commit(egoEntries', tradeEntries', drillEntries', settings', loaded',
              {STORAGE_KEYS.tradeEntries})
    /\ UNCHANGED <<currentPage, showReset, rafQueue>>
    /\ UNCHANGED download

\* ------------------------------------------------------------------------
\* Weapon drills
\* ------------------------------------------------------------------------
\* the entry WeaponDrills.handleSubmit builds
NewDrillEntry(form, clock) ==
    [id |-> Decimal(clock), date |-> clock, weapon |-> form.weapon,
     intensity |-> form.intensity, category |-> form.category]

\* onAdd of WeaponDrills putting the new entry first
AddDrill_Prepend(entries, entry) == <<entry>> \o entries

\* onAdd of WeaponDrills
AddDrill(entries, entry) == entries \o <<entry>>

\* the guard of handleSubmit testing weapon without trimming it
DrillRejected_Untrimmed(form) == form.weapon = <<>>

\* if (!weapon.trim()) return
DrillRejected(form) == trim(form.weapon) = <<>>

DrillSubmit(form, reading) ==
    /\ phase = "ready"
    /\ loaded
    /\ currentPage = "drills"
    /\ StoreSize < MaxEntries
    /\ IF DrillRejected(form)
       THEN /\ written' = {}
            /\ UNCHANGED <<egoEntries, tradeEntries, drillEntries, settings,
                           loaded, phase, storage, storageMode>>
       ELSE /\ drillEntries' = AddDrill(drillEntries, NewDrillEntry(form, reading))
            /\ UNCHANGED <<egoEntries, tradeEntries, settings, loaded>>
            /\ Commit(egoEntries', tradeEntries', drillEntries', settings',
                      loaded', {STORAGE_KEYS.drillEntries})
    /\ UNCHANGED <<currentPage, showReset, rafQueue>>
    /\ UNCHANGED download

\* ------------------------------------------------------------------------
\* Settings page
\* ------------------------------------------------------------------------
\* onChange of a capital field: onUpdate({...settings, field: parseInt || 0})
SettingsChange(field, text) ==
    /\ phase = "ready"
    /\ loaded
    /\ currentPage = "settings"
    /\ settings' = [settings EXCEPT ![field] = OrElse(parseInt(text), 0)]
    /\ UNCHANGED <<egoEntries, tradeEntries, drillEntries, loaded>>
    /\ Commit(egoEntries', tradeEntries', drillEntries', settings', loaded',
              {STORAGE_KEYS.settings})
    /\ UNCHANGED <<currentPage, showReset, rafQueue>>
    /\ UNCHANGED download

\* RESET ALL DATA
AskReset ==
    /\ phase = "ready"
    /\ loaded
    /\ currentPage = "settings"
    /\ ~showReset
    /\ showReset' = TRUE
    /\ written' = {}
    /\ UNCHANGED <<currentPage, egoEntries, tradeEntries, drillEntries,
                   settings, loaded, phase, rafQueue, storage,
                   storageMode>>
    /\ UNCHANGED download

\* CANCEL
CancelReset ==
    /\ phase = "ready"
    /\ loaded
    /\ currentPage = "settings"
    /\ showReset
    /\ showReset' = FALSE
    /\ written' = {}
    /\ UNCHANGED <<currentPage, egoEntries, tradeEntries, drillEntries,
                   settings, loaded, phase, rafQueue, storage,
                   storageMode>>
    /\ UNCHANGED download

\* onReset that forgets the trade log
ResetCollections_KeepTrades ==
    [ego |-> <<>>, trades |-> tradeEntries, drills |-> <<>>]

\* onReset that forgets the drill log
ResetCollections_KeepDrills ==
    [ego |-> <<>>, trades |-> <<>>, drills |-> drillEntries]

\* onReset of SettingsPage
ResetCollections == [ego |-> <<>>, trades |-> <<>>, drills |-> <<>>]

\* YES, RESET: onReset(); setShowReset(false)
ConfirmReset ==
    /\ phase = "ready"
    /\ loaded
    /\ currentPage = "settings"
    /\ showReset
    /\ egoEntries' = ResetCollections.ego
    /\ tradeEntries' = ResetCollections.trades
    /\ drillEntries' = ResetCollections.drills
    /\ showReset' = FALSE
    /\ UNCHANGED <<settings, loaded>>
    /\ Commit(egoEntries', tradeEntries', drillEntries', settings', loaded',
              {STORAGE_KEYS.egoEntries, STORAGE_KEYS.tradeEntries,
               STORAGE_KEYS.drillEntries})
    /\ UNCHANGED <<currentPage, rafQueue>>
    /\ UNCHANGED download

\* ------------------------------------------------------------------------
\* Derived statistics (computed by every render from the current state)
\* ------------------------------------------------------------------------
\* A JavaScript number that a division produced is [num, den] with den >= 0:
\* num / den when den > 0, and Infinity, -Infinity or NaN when den = 0 and
\* num is 1, -1 or 0.
Sign(n) == IF n > 0 THEN 1 ELSE IF n < 0 THEN -1 ELSE 0

\* the JavaScript expression  n / d  on integers
Divide(n, d) ==
    IF d = 0 THEN [num |-> Sign(n), den |-> 0]
    ELSE IF d < 0 THEN [num |-> -n, den |-> -d]
    ELSE [num |-> n, den |-> d]

\* the JavaScript expression  r * k  for an integer k > 0
Times(r, k) == IF r.den = 0 THEN r ELSE [num |-> r.num * k, den |-> r.den]

IsNaN(r) == r.den = 0 /\ r.num = 0

\* Math.max(k, r) and Math.min(k, r) for an integer k: NaN when r is NaN
MathMax(k, r) ==
    IF IsNaN(r) THEN r
    ELSE IF r.den = 0 THEN (IF r.num > 0 THEN r ELSE Divide(k, 1))
    ELSE IF r.num >= k * r.den THEN r ELSE Divide(k, 1)

MathMin(k, r) ==
    IF IsNaN(r) THEN r
    ELSE IF r.den = 0 THEN (IF r.num < 0 THEN r ELSE Divide(k, 1))
    ELSE IF r.num <= k * r.den THEN r ELSE Divide(k, 1)

\* Math.abs
MathAbs(r) == [num |-> IF r.num < 0 THEN -r.num ELSE r.num, den |-> r.den]

\* Math.round of a finite number: the nearest integer, halves go up
MathRound(r) == (2 * r.num + r.den) \div (2 * r.den)

\* entries.filter(t => t.result === result)
WithResult(trades, result) == SelectSeq(trades, LAMBDA t : t.result = result)

\* entries.reduce((s, t) => s + t.pnl, 0)
RECURSIVE SumPnl(_)
SumPnl(trades) ==
    IF trades = <<>> THEN 0
    ELSE SumPnl(SubSeq(trades, 1, Len(trades) - 1)) + trades[Len(trades)].pnl

\* winRate with Math.floor in place of Math.round
winRate_Floor(trades) ==
    IF Len(trades) > 0
    THEN (100 * Len(WithResult(trades, "WIN"))) \div Len(trades)
    ELSE 0

\* winRate of BlueLockTerminal (shown by Dashboard and TradeLog)
winRate(trades) ==
    IF Len(trades) > 0
    THEN MathRound(Times(Divide(Len(WithResult(trades, "WIN")), Len(trades)), 100))
    ELSE 0

\* wins and losses of Stats
wins(trades) == Len(WithResult(trades, "WIN"))

losses(trades) == Len(WithResult(trades, "LOSS"))

\* the Win Rate row of Stats
StatsWinRate(trades) ==
    IF Len(trades) > 0
    THEN MathRound(Times(Divide(wins(trades), Len(trades)), 100))
    ELSE 0

\* avgLoss of Stats
avgLoss(trades) ==
    IF losses(trades) > 0
    THEN MathAbs(Divide(SumPnl(WithResult(trades, "LOSS")), losses(trades)))
    ELSE Divide(0, 1)

\* the loop of streak: i runs from the last entry down, count so far
RECURSIVE StreakLoop(_, _, _)
StreakLoop(drills, i, count) ==
    IF i >= 1
    THEN IF drills[i].intensity >= 5 THEN StreakLoop(drills, i - 1, count + 1)
         ELSE count
    ELSE count

\* streak whose loop goes on after an entry below the threshold
streak_NoBreak(drills) ==
    Len(SelectSeq(drills, LAMBDA d : d.intensity >= 5))

\* streak of BlueLockTerminal
streak(drills) == StreakLoop(drills, Len(drills), 0)

\* latestEgo, previousEgo and egoTrend of BlueLockTerminal
egoTrend(ego) ==
    IF Len(ego) > 1 THEN ego[Len(ego)].score - ego[Len(ego) - 1].score ELSE 0

\* totalPnl of BlueLockTerminal and of Stats
totalPnl(trades) == SumPnl(trades)

\* egoEntries.reduce((s, e) => s + e.score, 0)
RECURSIVE SumScore(_)
SumScore(ego) ==
    IF ego = <<>> THEN 0
    ELSE SumScore(SubSeq(ego, 1, Len(ego) - 1)) + ego[Len(ego)].score

\* avgEgo of Stats
avgEgo(ego) ==
    IF Len(ego) > 0 THEN MathRound(Divide(SumScore(ego), Len(ego))) ELSE 0

\* avgWin of Stats
avgWin(trades) ==
    IF wins(trades) > 0
    THEN Divide(SumPnl(WithResult(trades, "WIN")), wins(trades))
    ELSE Divide(0, 1)

\* categoryStats of Stats
categoryStats(drills) ==
    [c \in {"TRADING", "FITNESS", "SKILL", "MINDSET"} |->
        Len(SelectSeq(drills, LAMBDA d : d.category = c))]

\* progressPercent without its Math.min(100, ...)
progressPercent_NoMin(sett) ==
    MathMax(0,
        Times(Divide(sett.currentCapital - sett.startingCapital,
                     sett.targetCapital - sett.startingCapital), 100))

\* progressPercent of BlueLockTerminal
progressPercent(sett) ==
    MathMin(100, MathMax(0,
        Times(Divide(sett.currentCapital - sett.startingCapital,
                     sett.targetCapital - sett.startingCapital), 100)))

\* ------------------------------------------------------------------------
\* Stats page
\* ------------------------------------------------------------------------
\* handleExport listing the drill log newest first
ExportData_NewestFirst(ego, trades, drills, sett, clock) ==
    [egoEntries |-> JArray(ego), tradeEntries |-> JArray(trades),
     drillEntries |->
         JArray([i \in DOMAIN drills |-> drills[Len(drills) + 1 - i]]),
     settings |-> JObject(sett), exportedAt |-> clock]

\* the data handleExport serializes
ExportData(ego, trades, drills, sett, clock) ==
    [egoEntries |-> JArray(ego), tradeEntries |-> JArray(trades),
     drillEntries |-> JArray(drills), settings |-> JObject(sett),
     exportedAt |-> clock]

\* EXPORT DATA: handleExport
Export(reading) ==
    /\ phase = "ready"
    /\ loaded
    /\ currentPage = "stats"
    /\ download' =
          [kind |-> "file", name |-> reading,
           content |-> JSON_stringify(JObject(
               ExportData(egoEntries, tradeEntries, drillEntries, settings,
                          reading)))]
    /\ UNCHANGED <<currentPage, egoEntries, tradeEntries, drillEntries,
                   settings, loaded, showReset, phase, rafQueue, storage,
                   written, storageMode>>

\* ------------------------------------------------------------------------
\* Specification
\* ------------------------------------------------------------------------
Next ==
    \/ MountEffects
    \/ RafCallback
    \/ FreeQuota
    \/ \E page \in Pages : Navigate(page)
    \/ \E form \in EgoForms(SliderScores), reading \in ClockReadings :
          EgoSubmit(form, reading)
    \/ \E form \in TradeForms, reading \in ClockReadings :
          TradeSubmit(form, reading)
    \/ \E form \in DrillForms, reading \in ClockReadings :
          DrillSubmit(form, reading)
    \/ \E field \in SettingsFields, text \in SettingTexts :
          SettingsChange(field, text)
    \/ AskReset
    \/ CancelReset
    \/ ConfirmReset

Spec == Init /\ [][Next]_vars

\* ------------------------------------------------------------------------
\* A session over the logs an earlier session left: what the pages show
\* and what the Stats page exports
\* ------------------------------------------------------------------------
MaxStored == 4      \* the logs of the earlier session hold up to MaxStored records

\* the trades the earlier session submitted: a WIN, a LOSS stored with a
\* positive pnl and a LOSS stored with a negative pnl
StoredTradeForms ==
    TradeForms \cup
    { [ticker |-> <<"b">>, entryPrice |-> <<"3">>, exitPrice |-> <<"1">>,
       shares |-> <<"1">>, result |-> "LOSS", notes |-> <<>>] }

\* the positions the earlier session moved the intensity slider to
StoredIntensities == {3, 5, 8, 9}

StoredDrillForms ==
    { [weapon |-> <<"a", "x">>, intensity |-> parseInt(Decimal(v)).n,
       category |-> "TRADING"] : v \in StoredIntensities }

\* the sequences of up to MaxStored elements of a set
Logs(forms) == UNION {[1..n -> forms] : n \in 0..MaxStored}

\* the trade log and the drill log submitted at clock readings 1, 2, ...
StoredTrades(forms) == [i \in DOMAIN forms |-> NewTradeEntry(forms[i], i)]

StoredDrills(forms) == [i \in DOMAIN forms |-> NewDrillEntry(forms[i], i)]

\* localStorage as the earlier session left it: a trade log or a drill log
StoredLogs ==
    {[k \in Keys |->
         IF k = STORAGE_KEYS.tradeEntries
         THEN JSON_stringify(JArray(StoredTrades(forms)))
         ELSE JSON_stringify(StoredValue(k))] : forms \in Logs(StoredTradeForms)}
    \cup
    {[k \in Keys |->
         IF k = STORAGE_KEYS.drillEntries
         THEN JSON_stringify(JArray(StoredDrills(forms)))
         ELSE JSON_stringify(StoredValue(k))] : forms \in Logs(StoredDrillForms)}

InitStats ==
    /\ currentPage = "dashboard"
    /\ egoEntries = <<>>
    /\ tradeEntries = <<>>
    /\ drillEntries = <<>>
    /\ settings = DefaultSettings
    /\ loaded = FALSE
    /\ showReset = FALSE
    /\ phase = "mounted"
    /\ rafQueue = <<>>
    /\ storageMode = "ok"
    /\ storage \in StoredLogs
    /\ written = {}
    /\ download = NoDownload

NextStats ==
    \/ MountEffects
    \/ RafCallback
    \/ \E page \in Pages : Navigate(page)
    \/ \E reading \in ClockReadings : Export(reading)

SpecStats == InitStats /\ [][NextStats]_vars

\* ------------------------------------------------------------------------
\* A first session in which the four capital fields are edited
\* ------------------------------------------------------------------------
\* texts typed into a capital field: nothing, 4705, -5 and 12000
CapitalTexts ==
    {<<>>, <<"4", "7", "0", "5">>, <<"-", "5">>, <<"1", "2", "0", "0", "0">>}

InitSettings ==
    /\ currentPage = "dashboard"
    /\ egoEntries = <<>>
    /\ tradeEntries = <<>>
    /\ drillEntries = <<>>
    /\ settings = DefaultSettings
    /\ loaded = FALSE
    /\ showReset = FALSE
    /\ phase = "mounted"
    /\ rafQueue = <<>>
    /\ storageMode = "ok"
    /\ storage = [k \in Keys |-> NoItem]
    /\ written = {}
    /\ download = NoDownload

NextSettings ==
    \/ MountEffects
    \/ RafCallback
    \/ \E page \in {"dashboard", "settings"} : Navigate(page)
    \/ \E field \in SettingsFields, text \in CapitalTexts :
          SettingsChange(field, text)

SpecSettings == InitSettings /\ [][NextSettings]_vars

\* ------------------------------------------------------------------------
\* Sessions that follow one another: the page is reloaded
\* ------------------------------------------------------------------------
\* a reload of the page: the component is constructed again, the pending
\* callbacks of the old page are dropped, localStorage is kept
Restart ==
    /\ phase # "mounted"
    /\ currentPage' = "dashboard"
    /\ egoEntries' = <<>>
    /\ tradeEntries' = <<>>
    /\ drillEntries' = <<>>
    /\ settings' = DefaultSettings
    /\ loaded' = FALSE
    /\ showReset' = FALSE
    /\ phase' = "mounted"
    /\ rafQueue' = <<>>
    /\ written' = {}
    /\ UNCHANGED <<storage, storageMode, download>>

\* the first session starts on an empty localStorage or on what an earlier
\* session wrote; every setItem succeeds
InitRestart ==
    /\ currentPage = "dashboard"
    /\ egoEntries = <<>>
    /\ tradeEntries = <<>>
    /\ drillEntries = <<>>
    /\ settings = DefaultSettings
    /\ loaded = FALSE
    /\ showReset = FALSE
    /\ phase = "mounted"
    /\ rafQueue = <<>>
    /\ storageMode = "ok"
    /\ storage \in {[k \in Keys |-> NoItem], UsableStore}
    /\ written = {}
    /\ download = NoDownload

NextRestart ==
    \/ MountEffects
    \/ RafCallback
    \/ \E page \in Pages : Navigate(page)
    \/ \E form \in EgoForms(SliderScores), reading \in ClockReadings :
          EgoSubmit(form, reading)
    \/ \E form \in TradeForms, reading \in ClockReadings :
          TradeSubmit(form, reading)
    \/ \E form \in DrillForms, reading \in ClockReadings :
          DrillSubmit(form, reading)
    \/ \E field \in SettingsFields, text \in SettingTexts :
          SettingsChange(field, text)
    \/ AskReset
    \/ CancelReset
    \/ ConfirmReset
    \/ Restart

SpecRestart == InitRestart /\ [][NextRestart]_vars

\* ------------------------------------------------------------------------
\* The start of a session on any localStorage, working, full or denied,
\* up to the completion of the load
\* ------------------------------------------------------------------------
InitFirstLoad ==
    /\ currentPage = "dashboard"
    /\ egoEntries = <<>>
    /\ tradeEntries = <<>>
    /\ drillEntries = <<>>
    /\ settings = DefaultSettings
    /\ loaded = FALSE
    /\ showReset = FALSE
    /\ phase = "mounted"
    /\ rafQueue = <<>>
    /\ storageMode \in {"ok", "full", "denied"}
    /\ storage \in InitialStores
    /\ written = {}
    /\ download = NoDownload

NextFirstLoad ==
    \/ MountEffects
    \/ RafCallback
    \/ FreeQuota
    \/ \E page \in Pages : Navigate(page)

SpecFirstLoad == InitFirstLoad /\ [][NextFirstLoad]_vars

\* ------------------------------------------------------------------------
\* Properties
\* ------------------------------------------------------------------------
EgoKey == STORAGE_KEYS.egoEntries

TradesKey == STORAGE_KEYS.tradeEntries

DrillsKey == STORAGE_KEYS.drillEntries

SettingsKey == STORAGE_KEYS.settings

\* what the store holds in memory for a key
MemValue(k) ==
    IF k = EgoKey THEN JArray(egoEntries)
    ELSE IF k = TradesKey THEN JArray(tradeEntries)
    ELSE IF k = DrillsKey THEN JArray(drillEntries)
    ELSE JObject(settings)

\* the default the load effect supplies for a key
DefaultDoc(k) == IF k = SettingsKey THEN JObject(DefaultSettings) ELSE JArray(<<>>)

\* the value the pending requestAnimationFrame callback holds for a key
Pending(c, k) ==
    IF k = EgoKey THEN c.ego
    ELSE IF k = TradesKey THEN c.trades
    ELSE IF k = DrillsKey THEN c.drills
    ELSE c.storedSettings

\* the step is an edit of a capital field
SettingsStep ==
    \E field \in SettingsFields, text \in SettingTexts : SettingsChange(field, text)

\* the step appends to, resets or replaces what the store holds for k
Mutates(k) ==
    \/ MemValue(k)' # MemValue(k)
    \/ k # SettingsKey /\ ConfirmReset
    \/ k = SettingsKey /\ SettingsStep

\* the step is one of the mutations of the store
IsMutation ==
    \/ egoEntries' # egoEntries
    \/ tradeEntries' # tradeEntries
    \/ drillEntries' # drillEntries
    \/ settings' # settings
    \/ ConfirmReset
    \/ SettingsStep

\* old is a prefix of new, which has exactly one more record
ExtendsByOne(old, new) ==
    Len(new) = Len(old) + 1 /\ SubSeq(new, 1, Len(old)) = old

\* an accepted submit leaves its collection with the record it built at the end
SubmitsAppend ==
    /\ \A form \in EgoForms(SliderScores), reading \in ClockReadings :
          EgoSubmit(form, reading) =>
              egoEntries' = Append(egoEntries, NewEgoEntry(form, reading))
    /\ \A form \in TradeForms, reading \in ClockReadings :
          TradeSubmit(form, reading) =>
              tradeEntries' = Append(tradeEntries, NewTradeEntry(form, reading))
    /\ \A form \in DrillForms, reading \in ClockReadings :
          (~DrillRejected(form) /\ DrillSubmit(form, reading)) =>
              drillEntries' = Append(drillEntries, NewDrillEntry(form, reading))

\* C1: no key is written, and no save is attempted, before the load has
\* completed and loaded is set; the write that accompanies the completion of
\* the load changes no key that held persisted data.
C1_ReadinessGate ==
    [][\A k \in Keys :
          /\ (storage'[k] # storage[k] \/ k \in written') => loaded'
          /\ (~loaded /\ storage'[k] # storage[k]) => storage[k].kind # "json"]_vars

\* C1 witness: the load completed over a store an earlier session wrote, the
\* four saves ran, and the persisted data is intact.
C1_Witness ==
    /\ loaded
    /\ phase = "ready"
    /\ storageMode = "ok"
    /\ written = Keys
    /\ storage = UsableStore
    /\ egoEntries = <<StoredEgo>>

\* C2: once loaded, every mutation hands its key to saveToStorage in the same
\* event, and when setItem succeeds the key holds the serialization of the
\* new in-memory value.
C2_MutationWritesBack ==
    [][loaded =>
          \A k \in Keys :
              Mutates(k) =>
                  /\ k \in written'
                  /\ storageMode = "ok" =>
                        storage'[k] = JSON_stringify(MemValue(k)')]_vars

\* C2 witness: two trades were appended and the trades key holds both.
C2_Witness ==
    /\ loaded
    /\ Len(tradeEntries) = 2
    /\ written = {TradesKey}
    /\ storage[TradesKey] = JSON_stringify(JArray(tradeEntries))

\* C3: the reset empties the three collections, hands their three keys to
\* saveToStorage (each holds the empty sequence when setItem succeeds) and
\* leaves settings unchanged in memory and under its key.
C3_ResetAll ==
    [][ConfirmReset =>
          /\ egoEntries' = <<>>
          /\ tradeEntries' = <<>>
          /\ drillEntries' = <<>>
          /\ settings' = settings
          /\ storage'[SettingsKey] = storage[SettingsKey]
          /\ written' = {EgoKey, TradesKey, DrillsKey}
          /\ storageMode = "ok" =>
                \A k \in written' : storage'[k] = JSON_stringify(JArray(<<>>))]_vars

\* C3 witness: a reset has just run on a store whose settings were edited;
\* the collections are empty in memory and in storage, the settings are kept.
C3_Witness ==
    /\ written = {EgoKey, TradesKey, DrillsKey}
    /\ egoEntries = <<>> /\ tradeEntries = <<>> /\ drillEntries = <<>>
    /\ \A k \in written : storage[k] = JSON_stringify(JArray(<<>>))
    /\ settings # DefaultSettings
    /\ settings.targetCapital = settings.startingCapital
    /\ storage[SettingsKey] = JSON_stringify(JObject(settings))

\* C4: once loaded, a step leaves a collection as it is, adds exactly one
\* record at its end (the record the submit built) or is the reset; an
\* accepted submit always adds its record.
C4_AppendOnly ==
    [][loaded =>
          /\ \/ egoEntries' = egoEntries
             \/ ExtendsByOne(egoEntries, egoEntries')
             \/ ConfirmReset
          /\ \/ tradeEntries' = tradeEntries
             \/ ExtendsByOne(tradeEntries, tradeEntries')
             \/ ConfirmReset
          /\ \/ drillEntries' = drillEntries
             \/ ExtendsByOne(drillEntries, drillEntries')
             \/ ConfirmReset
          /\ SubmitsAppend]_vars

\* C4 witness: two ego entries were appended, and are held in call order.
C4_Witness ==
    /\ Len(egoEntries) = 2
    /\ egoEntries[1].score = 100
    /\ egoEntries[2].score = 50
    /\ egoEntries[1].date < egoEntries[2].date

\* C5: for every key, default and state of the storage, loadFromStorage
\* returns without raising: the default when there is no window, the storage
\* may not be accessed, the key is absent or its text does not parse, the
\* deserialized value otherwise; the load effect holds exactly these values.
C5_LoadNeverRaises ==
    /\ \A k \in Keys, window \in BOOLEAN, denied \in BOOLEAN :
        \A d \in {DefaultDoc(k), JNull} :
          LET r == loadFromStorage(window, storage, denied, k, d)
              fallback == \/ ~window
                          \/ denied
                          \/ storage[k] = NoItem
                          \/ JSON_parse(storage[k]).throws
          IN  /\ ~r.throws
              /\ r.value = IF fallback THEN d ELSE JSON_parse(storage[k]).value
    /\ phase = "loading" =>
          \A k \in Keys :
              Pending(Head(rafQueue), k) =
                  IF \/ storageMode = "denied"
                     \/ storage[k] = NoItem
                     \/ JSON_parse(storage[k]).throws
                  THEN DefaultDoc(k)
                  ELSE JSON_parse(storage[k]).value

\* C5 witness: the load effect has run on a store whose settings key holds
\* text that does not parse, and holds the default settings for it.
C5_Witness ==
    /\ phase = "loading"
    /\ storage[SettingsKey] = RawText(<<"{", "o">>)
    /\ Head(rafQueue).storedSettings = JObject(DefaultSettings)

\* C6: a save whose setItem throws leaves the component running, keeps the
\* mutation in memory and leaves the storage as it was; no later step writes
\* without a mutation of its own (no retry); a later mutation whose setItem
\* succeeds stores the whole current value.
C6_FailedWriteSwallowed ==
    [][loaded' =>
          IF ~loaded \/ IsMutation
          THEN IF storageMode = "ok"
               THEN \A k \in written' : storage'[k] = JSON_stringify(MemValue(k)')
               ELSE /\ phase' = "ready"
                    /\ storage' = storage
                    /\ SubmitsAppend
                    /\ ConfirmReset => StoreSize' = 0
                    /\ \A field \in SettingsFields, text \in SettingTexts :
                          SettingsChange(field, text) =>
                              settings'[field] = OrElse(parseInt(text), 0)
          ELSE storage' = storage /\ written' \in {{}, written}]_vars

\* C6 witness: setItem threw for an appended ego entry; the entry is in
\* memory, the key holds what it held, the component runs.
C6_Witness ==
    /\ phase = "ready"
    /\ storageMode = "full"
    /\ written = {EgoKey}
    /\ Len(egoEntries) = 2
    /\ storage[EgoKey] = JSON_stringify(JArray(<<StoredEgo>>))

\* the keys other than k are neither handed to saveToStorage nor changed
OnlyWrites(k) ==
    /\ written' = {k}
    /\ \A j \in Keys \ {k} : storage'[j] = storage[j]

\* C7: once loaded, an append to one collection and an update of the
\* settings write that collection's key and no other.
C7_WriteIsolation ==
    [][(loaded /\ ~ConfirmReset) =>
          /\ egoEntries' # egoEntries => OnlyWrites(EgoKey)
          /\ tradeEntries' # tradeEntries => OnlyWrites(TradesKey)
          /\ drillEntries' # drillEntries => OnlyWrites(DrillsKey)
          /\ SettingsStep => OnlyWrites(SettingsKey)]_vars

\* C7 witness: an ego entry was appended and stored while the settings key
\* was out of date; the settings key is still out of date.
C7_Witness ==
    /\ storageMode = "ok"
    /\ written = {EgoKey}
    /\ Len(egoEntries) > 0
    /\ storage[EgoKey] = JSON_stringify(JArray(egoEntries))
    /\ storage[SettingsKey] # JSON_stringify(JObject(settings))

\* the ids of the records of the three collections, by collection and position
RecordIds ==
    [p \in ({EgoKey} \X DOMAIN egoEntries) \cup ({TradesKey} \X DOMAIN tradeEntries)
             \cup ({DrillsKey} \X DOMAIN drillEntries) |->
        IF p[1] = EgoKey THEN egoEntries[p[2]].id
        ELSE IF p[1] = TradesKey THEN tradeEntries[p[2]].id
        ELSE drillEntries[p[2]].id]

\* C8: all records of the three collections have pairwise distinct ids.
C8_UniqueIds ==
    \A p, q \in DOMAIN RecordIds : p # q => RecordIds[p] # RecordIds[q]

\* the seven tiers, lowest first
TierLabels ==
    <<"DONKEY", "HALF-BAKED", "PUPPET", "HUNGRY", "EGOIST", "MONSTER", "DEVOUR">>

TierOf(label) == CHOOSE i \in DOMAIN TierLabels : TierLabels[i] = label

\* the tier the inclusive upper bounds 20, 40, 55, 70, 85, 95 give a score
TierByBounds(score) ==
    1 + Cardinality({b \in {20, 40, 55, 70, 85, 95} : score > b})

\* C9: every score of 0..100 the ego form submits is stored with the label of
\* the tier its upper bounds give, one of seven, and the tier never decreases
\* as the score grows.
C9_SevenTiers ==
    /\ Len(TierLabels) = 7
    /\ \A i \in DOMAIN egoEntries :
          /\ egoEntries[i].score \in 0..100
          /\ \E t \in DOMAIN TierLabels : egoEntries[i].label = TierLabels[t]
          /\ TierOf(egoEntries[i].label) = TierByBounds(egoEntries[i].score)
          /\ \A lower \in 0..egoEntries[i].score :
                TierOf(getEgoLabel(lower)) <= TierOf(egoEntries[i].label)

\* C9 witness: a score of 96 was submitted and is stored in the seventh tier.
C9_Witness ==
    /\ Len(egoEntries) = 1
    /\ egoEntries[1].score = 96
    /\ egoEntries[1].label = "DEVOUR"

\* the first ego submission of a session, for every position of the slider
InitScores ==
    /\ Init
    /\ storageMode = "ok"
    /\ storage = [k \in Keys |-> NoItem]

NextScores ==
    \/ MountEffects
    \/ RafCallback
    \/ \E page \in {"ego"} : Navigate(page)
    \/ \E form \in EgoForms(0..100), reading \in ClockReadings :
          egoEntries = <<>> /\ EgoSubmit(form, reading)

SpecScores == InitScores /\ [][NextScores]_vars

\* C10: every stored trade has pnl = (exitPrice - entryPrice) * shares of its
\* own stored fields, whatever its result, and a step changes the pnl of no
\* trade that stays in the collection.
C10_PnlDerived ==
    [][/\ \A i \in DOMAIN tradeEntries' :
             LET t == tradeEntries'[i]
             IN  t.pnl = (t.exitPrice - t.entryPrice) * t.shares
       /\ ~ConfirmReset =>
             \A i \in DOMAIN tradeEntries : tradeEntries'[i] = tradeEntries[i]]_vars

\* C10 witness: entry price 10, exit price 15 (in tenths) and 2 shares were
\* stored with pnl 10, next to a LOSS trade whose pnl is positive.
C10_Witness ==
    /\ Len(tradeEntries) = 2
    /\ \E i \in DOMAIN tradeEntries :
          /\ tradeEntries[i].entryPrice = 100
          /\ tradeEntries[i].exitPrice = 150
          /\ tradeEntries[i].shares = 2
          /\ tradeEntries[i].pnl = 100
    /\ \E i \in DOMAIN tradeEntries :
          tradeEntries[i].result = "LOSS" /\ tradeEntries[i].pnl > 0

\* the results of the trades and the intensities of the drills, in order
Results(trades) == [i \in DOMAIN trades |-> trades[i].result]

Intensities(drills) == [i \in DOMAIN drills |-> drills[i].intensity]

\* C11: the win rate is 0 for the empty trade log and otherwise the integer
\* nearest to 100 * (WIN trades) / (trades), halves going up; it lies in
\* 0..100, the Stats page shows the same number, and [WIN, WIN, LOSS] gives 67.
C11_WinRate ==
    LET total == Len(tradeEntries)
        won == Cardinality({i \in DOMAIN tradeEntries :
                               tradeEntries[i].result = "WIN"})
        rate == winRate(tradeEntries)
    IN  /\ rate \in 0..100
        /\ total = 0 => rate = 0
        /\ total > 0 =>
              /\ (2 * rate - 1) * total <= 200 * won
              /\ 200 * won < (2 * rate + 1) * total
        /\ StatsWinRate(tradeEntries) = rate
        /\ Results(tradeEntries) = <<"WIN", "WIN", "LOSS">> => rate = 67

\* C11 witness: the trade page shows 67 for the loaded log WIN, WIN, LOSS.
C11_Witness ==
    /\ loaded
    /\ currentPage = "trades"
    /\ Results(tradeEntries) = <<"WIN", "WIN", "LOSS">>
    /\ winRate(tradeEntries) = 67

\* C12: the streak is the length of the longest suffix of the drill log whose
\* entries all have intensity >= 5: 0 for the empty log and when the newest
\* entry is below 5, and 2 for the intensities 8, 3, 9, 9.
C12_Streak ==
    LET total == Len(drillEntries)
        n == streak(drillEntries)
    IN  /\ n \in 0..total
        /\ \A i \in (total - n + 1)..total : drillEntries[i].intensity >= 5
        /\ n < total => drillEntries[total - n].intensity < 5
        /\ total = 0 => n = 0
        /\ (total > 0 /\ drillEntries[total].intensity < 5) => n = 0
        /\ Intensities(drillEntries) = <<8, 3, 9, 9>> => n = 2

\* C12 witness: the drill page shows 2 for the loaded intensities 8, 3, 9, 9.
C12_Witness ==
    /\ loaded
    /\ currentPage = "drills"
    /\ Intensities(drillEntries) = <<8, 3, 9, 9>>
    /\ streak(drillEntries) = 2

\* the sum of the absolute values of the pnl of the trades
RECURSIVE SumAbsPnl(_)
SumAbsPnl(trades) ==
    IF trades = <<>> THEN 0
    ELSE LET p == Head(trades).pnl
         IN  (IF p < 0 THEN -p ELSE p) + SumAbsPnl(Tail(trades))

\* C14: the average loss is the mean of the absolute values of pnl over the
\* LOSS trades, and 0 when there is no LOSS trade.
C14_AvgLossMeanAbs ==
    LET lost == WithResult(tradeEntries, "LOSS")
        avg == avgLoss(tradeEntries)
    IN  /\ avg.den > 0
        /\ avg.num * (IF lost = <<>> THEN 1 ELSE Len(lost)) =
              SumAbsPnl(lost) * avg.den

\* C16: an export hands the browser a document whose four fields are the
\* current collections and settings, in order and unfiltered, and changes
\* neither the in-memory store nor any storage key.
C16_ExportVerbatim ==
    [][\A reading \in ClockReadings :
          Export(reading) =>
              /\ download'.kind = "file"
              /\ JSON_parse(download'.content).value.fields.egoEntries =
                    JArray(egoEntries)
              /\ JSON_parse(download'.content).value.fields.tradeEntries =
                    JArray(tradeEntries)
              /\ JSON_parse(download'.content).value.fields.drillEntries =
                    JArray(drillEntries)
              /\ JSON_parse(download'.content).value.fields.settings =
                    JObject(settings)
              /\ UNCHANGED <<egoEntries, tradeEntries, drillEntries, settings,
                             storage>>]_vars

\* C16 witness: a log of four drills was exported; the document holds the
\* four drills and the storage holds what the load wrote.
C16_Witness ==
    /\ download.kind = "file"
    /\ Len(drillEntries) = 4
    /\ Intensities(JSON_parse(download.content).value.fields.drillEntries.items)
          = Intensities(drillEntries)
    /\ storage[DrillsKey] = JSON_stringify(JArray(drillEntries))

\* the number r is the integer v
IsInteger(r, v) == r.den > 0 /\ r.num = v * r.den

\* C13 as stated: whatever the order of the amounts, progressPercent is 0
\* when currentCapital is below startingCapital and 100 when it is at or
\* above targetCapital.
C13_ProgressClamped ==
    loaded =>
        /\ settings.currentCapital < settings.startingCapital =>
              IsInteger(progressPercent(settings), 0)
        /\ settings.currentCapital >= settings.targetCapital =>
              IsInteger(progressPercent(settings), 100)

\* C13 amended: when startingCapital <= targetCapital, progressPercent is 0
\* when currentCapital is below startingCapital, and 100 when it is at or
\* above targetCapital and above startingCapital.
C13_ProgressClampedOrdered ==
    (loaded /\ settings.startingCapital <= settings.targetCapital) =>
        /\ settings.currentCapital < settings.startingCapital =>
              IsInteger(progressPercent(settings), 0)
        /\ (/\ settings.currentCapital >= settings.targetCapital
            /\ settings.currentCapital > settings.startingCapital) =>
              IsInteger(progressPercent(settings), 100)

\* C13 witness: the dashboard shows 100 after the starting capital was set to
\* -5, the target to 4705 and the current capital to 12000.
C13_Witness ==
    /\ loaded
    /\ currentPage = "dashboard"
    /\ settings.startingCapital = -5
    /\ settings.targetCapital = 4705
    /\ settings.currentCapital = 12000
    /\ IsInteger(progressPercent(settings), 100)

\* C18: in every state progressPercent is a number between 0 and 100.
C18_ProgressDefined ==
    LET p == progressPercent(settings)
    IN  /\ p.den > 0
        /\ 0 <= p.num
        /\ p.num <= 100 * p.den

\* the text is empty or made of white space only
Blank(text) == \A i \in DOMAIN text : text[i] \in Whitespace

\* C15: a drill submitted with an empty or white-space-only weapon changes no
\* collection, not the settings and no storage key, hands no key to
\* saveToStorage and leaves the component running; no drill that a submit
\* adds has a blank weapon.
C15_BlankDrillNoOp ==
    [][currentPage = "drills" =>
          /\ \A form \in DrillForms, reading \in ClockReadings :
                (Blank(form.weapon) /\ DrillSubmit(form, reading)) =>
                    /\ UNCHANGED <<egoEntries, tradeEntries, drillEntries,
                                   settings, storage, phase>>
                    /\ written' = {}
          /\ Len(drillEntries') > Len(drillEntries) =>
                ~Blank(drillEntries'[Len(drillEntries')].weapon)]_vars

\* C15 witness: the drill page after a drill was stored and nothing was
\* written by the latest event, with room for another submit.
C15_Witness ==
    /\ phase = "ready"
    /\ currentPage = "drills"
    /\ written = {}
    /\ StoreSize < MaxEntries
    /\ Len(drillEntries) = 1
    /\ ~Blank(drillEntries[1].weapon)
    /\ storage[DrillsKey] = JSON_stringify(JArray(drillEntries))

\* C17: whatever the four keys hold, once the load callback has run the
\* component is running with loaded set, the three collections are
\* sequences and settings is a record of the four amounts.
C17_InitNeverFatal ==
    phase \notin {"mounted", "loading"} =>
        /\ phase = "ready"
        /\ loaded
        /\ DOMAIN egoEntries = 1..Len(egoEntries)
        /\ DOMAIN tradeEntries = 1..Len(tradeEntries)
        /\ DOMAIN drillEntries = 1..Len(drillEntries)
        /\ DOMAIN settings = SettingsFields

\* C19: every stored trade has a positive number of shares and non-negative
\* entry and exit prices.
C19_TradeDataModel ==
    \A i \in DOMAIN tradeEntries :
        /\ tradeEntries[i].shares > 0
        /\ tradeEntries[i].entryPrice >= 0
        /\ tradeEntries[i].exitPrice >= 0

\* C20: every ego entry has a score in 0..100 and the label of the tier of
\* its score, and a step changes neither the score nor the label of an entry
\* that stays in the collection.
C20_EgoLabelFrozen ==
    [][/\ \A i \in DOMAIN egoEntries' :
             /\ egoEntries'[i].score \in 0..100
             /\ egoEntries'[i].label = TierLabels[TierByBounds(egoEntries'[i].score)]
       /\ \A i \in DOMAIN egoEntries \cap DOMAIN egoEntries' :
             /\ egoEntries'[i].score = egoEntries[i].score
             /\ egoEntries'[i].label = egoEntries[i].label]_vars

\* C20 witness: the entries 100 (DEVOUR) and 50 (PUPPET) were appended and a
\* capital field was edited afterwards.
C20_Witness ==
    /\ Len(egoEntries) = 2
    /\ egoEntries[1].score = 100 /\ egoEntries[1].label = "DEVOUR"
    /\ egoEntries[2].score = 50 /\ egoEntries[2].label = "PUPPET"
    /\ written = {SettingsKey}
    /\ settings.targetCapital = 4705

\* every statistic the pages show is 0 for these collections
AllStatisticsZero(ego, trades, drills) ==
    /\ winRate(trades) = 0
    /\ StatsWinRate(trades) = 0
    /\ totalPnl(trades) = 0
    /\ streak(drills) = 0
    /\ egoTrend(ego) = 0
    /\ avgEgo(ego) = 0
    /\ IsInteger(avgWin(trades), 0)
    /\ IsInteger(avgLoss(trades), 0)
    /\ \A c \in DOMAIN categoryStats(drills) : categoryStats(drills)[c] = 0

\* C21: the statistics follow the collections of the latest render: right
\* after the reset all of them are 0, after an append the total P/L is the
\* old total plus the pnl of the new trade, the ego trend is the new score
\* minus the previous one and the category count of the new drill grew by 1.
C21_StatisticsFresh ==
    [][loaded =>
          /\ ConfirmReset =>
                AllStatisticsZero(egoEntries', tradeEntries', drillEntries')
          /\ ExtendsByOne(tradeEntries, tradeEntries') =>
                totalPnl(tradeEntries') =
                    totalPnl(tradeEntries) + tradeEntries'[Len(tradeEntries')].pnl
          /\ (egoEntries # <<>> /\ ExtendsByOne(egoEntries, egoEntries')) =>
                egoTrend(egoEntries') =
                    egoEntries'[Len(egoEntries')].score
                        - egoEntries[Len(egoEntries)].score
          /\ ExtendsByOne(drillEntries, drillEntries') =>
                LET c == drillEntries'[Len(drillEntries')].category
                IN  categoryStats(drillEntries')[c] =
                        categoryStats(drillEntries)[c] + 1]_vars

\* C21 witness: a reset has just emptied the collections and every statistic
\* is 0.
C21_Witness ==
    /\ loaded
    /\ written = {EgoKey, TradesKey, DrillsKey}
    /\ StoreSize = 0
    /\ AllStatisticsZero(egoEntries, tradeEntries, drillEntries)
    /\ \A k \in written : storage[k] = JSON_stringify(JArray(<<>>))

\* what loadFromStorage returns for key k on this store
Loads(store, mode, k) ==
    loadFromStorage(TRUE, store, GetItemThrows(mode), k, DefaultDoc(k))

\* C22: with every write succeeding, a restart of a ready store finds under
\* each key the value held in memory just before it; until the load completes
\* the storage is not touched, and the load completes with exactly what the
\* keys hold in memory: the collections and settings of before the restart.
C22_RestartRoundTrip ==
    [][/\ (loaded /\ phase = "ready" /\ Restart) =>
             \A k \in Keys :
                 Loads(storage', storageMode', k) = Returned(MemValue(k))
       /\ (~loaded /\ ~loaded') => storage' = storage
       /\ (~loaded /\ loaded') =>
             /\ phase' = "ready"
             /\ \A k \in Keys :
                   Returned(MemValue(k)') = Loads(storage, storageMode, k)]_vars

\* C22 witness: the load of a restarted session has just completed with a
\* trade, a drill and edited settings, more than any first session finds.
C22_Witness ==
    /\ loaded
    /\ phase = "ready"
    /\ currentPage = "dashboard"
    /\ written = Keys
    /\ Len(tradeEntries) = 1
    /\ Len(drillEntries) = 1
    /\ settings.weeklyInjection = 4705

\* the key holds no text or text that loadFromStorage cannot use
AbsentOrUnparseable(item) == item.kind \in {"none", "raw"}

\* before the load completes nothing is handed to saveToStorage, and without
\* an operation on the store nothing is written after it
WritesOnlyAtCompletion ==
    /\ ~loaded' => (storage' = storage /\ written' = {})
    /\ loaded => (storage' = storage /\ written' \in {{}, written})

\* C23 as stated: the completion of the load writes all four keys with the
\* values just loaded, once: a key that was absent or unparseable then holds
\* the serialized default and a key that held a value holds an equal value.
C23_PostLoadWrite ==
    [][/\ WritesOnlyAtCompletion
       /\ (~loaded /\ loaded') =>
             /\ written' = Keys
             /\ \A k \in Keys :
                   /\ storage'[k] = JSON_stringify(MemValue(k)')
                   /\ AbsentOrUnparseable(storage[k]) =>
                         storage'[k] = JSON_stringify(DefaultDoc(k))
                   /\ storage[k].kind = "json" => storage'[k] = storage[k]]_vars

\* C23 amended: the completion of the load hands all four keys to
\* saveToStorage with the values just loaded, once; where setItem succeeds a
\* key that was absent or unparseable then holds the serialized default and
\* a key that held a value holds an equal value; where setItem throws every
\* key keeps what it held.
C23_PostLoadWriteIfOk ==
    [][/\ WritesOnlyAtCompletion
       /\ (~loaded /\ loaded') =>
             /\ written' = Keys
             /\ phase' = "ready"
             /\ IF storageMode = "ok"
                THEN \A k \in Keys :
                        /\ storage'[k] = JSON_stringify(MemValue(k)')
                        /\ AbsentOrUnparseable(storage[k]) =>
                              storage'[k] = JSON_stringify(DefaultDoc(k))
                        /\ storage[k].kind = "json" => storage'[k] = storage[k]
                ELSE storage' = storage]_vars

\* C23 witness: the load has just completed on a working storage whose keys
\* were absent or unparseable; each key holds its serialized default.
C23_Witness ==
    /\ loaded
    /\ storageMode = "ok"
    /\ written = Keys
    /\ \A k \in Keys : storage[k] = JSON_stringify(DefaultDoc(k))

\* C24: once loaded, a drill added with intensity >= 5 raises the streak by
\* exactly 1 and one added with a lower intensity sets it to 0; the reset
\* sets it to 0; an added ego entry or trade and an edit of the settings
\* leave it as it is; the streak never exceeds the number of drills.
C24_StreakEvolves ==
    [][loaded =>
          /\ Len(drillEntries') = Len(drillEntries) + 1 =>
                \A form \in DrillForms, reading \in ClockReadings :
                    DrillSubmit(form, reading) =>
                        streak(drillEntries') =
                            IF form.intensity >= 5
                            THEN streak(drillEntries) + 1
                            ELSE 0
          /\ ConfirmReset => streak(drillEntries') = 0
          /\ (\/ egoEntries' # egoEntries
              \/ tradeEntries' # tradeEntries
              \/ settings' # settings) =>
                (~ConfirmReset => streak(drillEntries') = streak(drillEntries))
          /\ streak(drillEntries') <= Len(drillEntries')]_vars

\* C24 witness: a drill of intensity 3 was added after one of intensity 5;
\* the streak went from 1 to 0.
C24_Witness ==
    /\ written = {DrillsKey}
    /\ Intensities(drillEntries) = <<5, 3>>
    /\ streak(SubSeq(drillEntries, 1, 1)) = 1
    /\ streak(drillEntries) = 0

====
